---------------------------- MODULE Spec2Model ----------------------------
(***************************************************************************)
(* Model of src/script.js (Vista): the page's UI controllers as state      *)
(* machines over the DOM state they read and write.  Every event handler,  *)
(* timer callback and observer callback is one action.  The controllers    *)
(* are independent except for the state they share (the body's overflow    *)
(* style, the nav links' active mark, the document's keydown listeners),   *)
(* so each feature has its own specification over the module's variables;  *)
(* the variables of the features a specification leaves out stay at their   *)
(* initial values.  The markup is taken to supply every element a          *)
(* constructor looks up.  A timer without a modelled duration may fire at  *)
(* any later step.                                                         *)
(***************************************************************************)
EXTENDS Integers, Sequences, FiniteSets, TLC

VARIABLES
    \* ---- TestimonialsSlider (script.js 303-365)
    numCards,        \* this.cards.length
    markup,          \* the cards the markup marks active before construction
    cardsActive,     \* indices of .testimonial-card elements with class active
    dotsActive,      \* indices of .dot elements with class active
    currentSlide,    \* this.currentSlide
    autoPlay,        \* this.autoPlay
    interval,        \* this.interval: the id setInterval returned last
    sliderThrew,     \* history: a timer callback ended in an uncaught TypeError
    liveIntervals,   \* id -> time quanta elapsed since the interval (re)started
    startIdx,        \* history: index shown at construction or after the last dot click
    advCount,        \* history: timer advances since then, saturating at MaxAdvances
    sinceAdvance,    \* history: time quanta since the last timer advance, saturating
    \* ---- DestinationFilter (script.js 271-298)
    btnFilter,       \* button -> its data-filter
    cardCategory,    \* card -> its data-category
    btnActive,       \* .filter-btn elements with class active
    cardHidden,      \* .destination-card elements with class hidden
    cardAnimation,   \* cards whose style.animation is the fade-in
    lastClicked,     \* history: the filter button clicked last, 0 = none yet
    everHidden,      \* history: cards some click has flagged hidden
    \* ---- document.body.style.overflow (Loader, Navigation, SearchModal)
    bodyOverflow,
    \* ---- SearchModal (script.js 370-411)
    searchActive,    \* #searchModal has class active
    focusPending,    \* pending setTimeout(() => searchInput.focus(), 100) callbacks
    inputFocused,    \* the search input has received focus()
    \* ---- GalleryLightbox (script.js 545-632)
    lightboxes,      \* lightbox nodes attached to document.body
    lbStyles,        \* lightbox style nodes attached to document.head
    keyListeners,    \* lightboxes whose keydown listener is registered on document
    nextLightbox,    \* the next lightbox openLightbox() creates
    \* ---- CounterAnimation, one .stat-number[data-count] (script.js 226-266)
    dataCount,       \* counter.dataset.count, a sequence of characters
    counterText,     \* counter.textContent, a sequence of characters
    frames,          \* calls of updateCounter so far: current = frames * step
    rafPending,      \* a requestAnimationFrame(updateCounter) callback is pending
    counterObserved, \* the observer still observes the counter
    counterStarted,  \* animateCounter has been called
    counterStarts,   \* history: calls of animateCounter for the counter
    \* ---- scroll listeners: Navigation, ScrollProgress, BackToTop, ParallaxEffect
    scrollHeight,    \* document.documentElement.scrollHeight
    innerHeight,     \* window.innerHeight
    scrollY,         \* window.scrollY
    navScrolled,     \* #navbar has class scrolled
    progressWidth,   \* the number last written to #scrollProgress's width, in percent
    btnVisible,      \* #backToTop has class visible
    parallaxAt,      \* the scrollY the parallax transforms were last computed from
    inThrottle,      \* listener -> the inThrottle flag of its Utils.throttle wrapper
    \* ---- Loader (script.js 70-88)
    loadedBefore,    \* the load event had fired before the Loader was constructed
    loadFired,       \* the load listener has run
    hidePending,     \* the 1500 ms timer of the load listener is pending
    hideElapsed,     \* time quanta since that timer was set
    loaderHidden,    \* #loader has class hidden
    \* ---- Navigation click listeners (script.js 122-164), ActiveNavLink (679-708)
    linkHref,        \* .nav-link -> the section its href names, 0 = no such element
    linkScroll,      \* .nav-link -> it carries data-scroll
    dropLink,        \* the .nav-link of the .nav-item.dropdown, 0 = no dropdown
    narrow,          \* window.innerWidth <= 1024
    hamburgerActive, \* #hamburger has class active
    menuActive,      \* #navMenu has class active
    dropdownActive,  \* the dropdown item has class active
    linkActive,      \* .nav-link elements with class active
    defaultPrevented, \* history: the last nav-link click had its default prevented
    \* ---- Utils.debounce and Utils.throttle around one action (script.js 17-39)
    dbTimers,        \* debounce: pending setTimeout(later, wait): id -> args, elapsed
    dbTimeout,       \* debounce: the closure's timeout, 0 = undefined
    dbCalls,         \* history: calls of the debounced function
    dbRuns,          \* history: runs of func through the debounce wrapper
    dbLastArgs,      \* history: the arguments of the most recent call
    dbRanArgs,       \* history: the arguments func ran with last
    dbQuiet,         \* history: time quanta since the most recent call
    dbBurstRuns,     \* history: runs of func since the most recent call
    thFlag,          \* throttle: the closure's inThrottle
    thTimers,        \* throttle: pending setTimeout(() => inThrottle = false): id -> elapsed
    thCalls,         \* history: calls of the throttled function
    thRuns,          \* history: runs of func through the throttle wrapper
    thSince,         \* history: time quanta since func ran last
    \* ---- bootstrap (script.js 741-765)
    readyState,      \* document.readyState
    hasIO,           \* 'IntersectionObserver' in window
    missingMarkup,   \* elements a constructor dereferences that the markup lacks
    scriptRan,       \* the script's top level has run
    dclListeners,    \* initApp listeners registered for DOMContentLoaded
    initRuns,        \* history: calls of initApp
    constructed,     \* history: the controllers whose constructor returned, in order
    logged,          \* console.log of line 757 has run
    \* ---- FormHandler (script.js 445-540)
    formFilled,      \* form -> its fields hold what the user typed
    submits,         \* history: submit events so far
    prevented,       \* history: submit events whose default was prevented
    submitTimers,    \* pending simulateLoading() timers: submit -> form, elapsed
    notifications,   \* notification nodes attached to document.body
    notifStyles,     \* notification style nodes attached to document.head
    removeTimers,    \* pending removal timers: notification -> elapsed
    notifOf,         \* history: notification -> the type it shows, the submit it answers
    \* ---- ScrollAnimations (script.js 189-221)
    revealDelay,     \* [data-animate] element -> its data-delay, in time quanta
    revealObserved,  \* elements the observer observes
    revealTimers,    \* pending setTimeout(() => add 'animated', delay): id -> element, left
    revealMarked,    \* elements with class animated
    revealHits,      \* history: element -> intersections that scheduled a mark
    writers,         \* history: shared resource -> controllers that have written it
    \* ---- history shared by all features
    lastEvent        \* <<name, argument>> of the event or callback handled last

carouselVars == <<numCards, markup, cardsActive, dotsActive, currentSlide,
                  autoPlay, interval, sliderThrew, liveIntervals, startIdx, advCount,
                  sinceAdvance>>
filterVars == <<btnFilter, cardCategory, btnActive, cardHidden, cardAnimation,
                lastClicked, everHidden>>
searchVars == <<searchActive, focusPending, inputFocused>>
lightboxVars == <<lightboxes, lbStyles, keyListeners, nextLightbox>>

counterVars == <<dataCount, counterText, frames, rafPending, counterObserved,
                 counterStarted, counterStarts>>
scrollVars == <<scrollHeight, innerHeight, scrollY, navScrolled, progressWidth,
                btnVisible, parallaxAt, inThrottle>>

loaderVars == <<loadedBefore, loadFired, hidePending, hideElapsed, loaderHidden>>
navVars == <<linkHref, linkScroll, dropLink, narrow, hamburgerActive, menuActive,
             dropdownActive, linkActive, defaultPrevented>>

rateVars == <<dbTimers, dbTimeout, dbCalls, dbRuns, dbLastArgs, dbRanArgs, dbQuiet,
              dbBurstRuns, thFlag, thTimers, thCalls, thRuns, thSince>>

bootVars == <<readyState, hasIO, missingMarkup, scriptRan, dclListeners, initRuns,
              constructed, logged>>

formVars == <<formFilled, submits, prevented, submitTimers, notifications, notifStyles,
              removeTimers, notifOf>>

revealVars == <<revealDelay, revealObserved, revealTimers, revealMarked, revealHits>>

vars == <<carouselVars, filterVars, bodyOverflow, searchVars, lightboxVars,
          counterVars, scrollVars, loaderVars, navVars, rateVars, bootVars, formVars, revealVars, writers, lastEvent>>

-----------------------------------------------------------------------------
(* Bounds of the model *)

MaxCards == 3
QuantaPerInterval == 2
MaxAdvances == 7
MaxButtons == 2
MaxDestCards == 2
MaxFocusPending == 1
MaxOpens == 3
MaxCountLen == 3
MaxSmallScroll == 3
MaxLinks == 2
MaxSections == 2
MaxBatch == 2
WaitQuanta == 2
LimitQuanta == 2
MaxCalls == 4
MaxSubmits == 3
QuantaPerSecond == 1
HideQuanta == 2
MaxReveal == 2
MaxDelay == 2
MaxHits == 2

-----------------------------------------------------------------------------
(* TestimonialsSlider *)

\* this.intervalTime (ms); one quantum of model time is IntervalTime / QuantaPerInterval ms
IntervalTime == 5000

Cards == 0 .. (numCards - 1)

\* constructor + init() over n cards: createDots() builds n dots and marks dot
\* 0 active, startAutoPlay() starts the first interval (autoPlay is true),
\* currentSlide = 0.  The cards keep the marks the markup gave them.
CarouselInitWith(n) ==
    /\ numCards = n
    /\ markup \in SUBSET (0 .. (n - 1))
    /\ cardsActive = markup
    /\ dotsActive = {0} \cap (0 .. (n - 1))
    /\ currentSlide = 0
    /\ autoPlay = TRUE
    /\ interval = 1
    /\ sliderThrew = FALSE
    /\ liveIntervals = [id \in {1} |-> 0]
    /\ startIdx = 0
    /\ advCount = 0
    /\ sinceAdvance = QuantaPerInterval

\* a page with at least one testimonial card
CarouselInit == \E n \in 1 .. MaxCards : CarouselInitWith(n)

CarouselIdle ==
    /\ numCards = 1
    /\ markup = {0}
    /\ cardsActive = {0}
    /\ dotsActive = {0}
    /\ currentSlide = 0
    /\ autoPlay = TRUE
    /\ interval = 1
    /\ sliderThrew = FALSE
    /\ liveIntervals = [id \in {1} |-> 0]
    /\ startIdx = 0
    /\ advCount = 0
    /\ sinceAdvance = QuantaPerInterval

\* the index the interval callback computes: (this.currentSlide + 1) % this.cards.length
\* x % 0 and every operation on NaN give NaN, written as an index no card has
NaNIndex == 0 - 1
NextIndex_OffByOne(i, n) == (i + 1) % (n + 1)
NextIndex(i, n) == IF n = 0 \/ i = NaNIndex THEN NaNIndex ELSE (i + 1) % n

\* goToSlide(index): remove active from every card and dot, add it to the ones
\* at index.  With no card at index (only the timer callback passes such an
\* index, after it has stored it in this.currentSlide) this.cards[index] is
\* undefined and its .classList throws.
GoToSlide_KeepOld(index) ==
    /\ cardsActive' = cardsActive \cup {index}
    /\ dotsActive' = (dotsActive \ Cards) \cup {index}
    /\ currentSlide' = index
    /\ UNCHANGED sliderThrew
GoToSlide(index) ==
    IF index \in Cards
    THEN /\ cardsActive' = (cardsActive \ Cards) \cup {index}
         /\ dotsActive' = (dotsActive \ Cards) \cup {index}
         /\ currentSlide' = index
         /\ UNCHANGED sliderThrew
    ELSE /\ cardsActive' = cardsActive \ Cards
         /\ dotsActive' = dotsActive \ Cards
         /\ currentSlide' = index
         /\ sliderThrew' = TRUE

\* setInterval hands out an id not in use; which one is immaterial
FreshId(live) == CHOOSE id \in 1 .. (Cardinality(DOMAIN live) + 1) : id \notin DOMAIN live

\* clearInterval(id) on the running intervals
ClearInterval_Keep(live, id) == live
ClearInterval(live, id) == [i \in DOMAIN live \ {id} |-> live[i]]

\* startAutoPlay(): nothing when autoPlay is off; else clearInterval(this.interval)
\* and a new interval whose first callback is a full intervalTime away
StartAutoPlay(ap) ==
    IF ~ap
    THEN UNCHANGED <<interval, liveIntervals>>
    ELSE LET cleared == ClearInterval(liveIntervals, interval)
             new == FreshId(cleared)
         IN /\ interval' = new
            /\ liveIntervals' = [id \in DOMAIN cleared \cup {new} |->
                                    IF id = new THEN 0 ELSE cleared[id]]

\* the setInterval callback of a live interval that is due
TimerAdvance(id) ==
    /\ id \in DOMAIN liveIntervals
    /\ liveIntervals[id] = QuantaPerInterval
    /\ GoToSlide(NextIndex(currentSlide, numCards))
    /\ liveIntervals' = [liveIntervals EXCEPT ![id] = 0]
    /\ advCount' = IF advCount < MaxAdvances THEN advCount + 1 ELSE MaxAdvances
    /\ sinceAdvance' = 0
    /\ lastEvent' = <<"timer", id>>
    /\ UNCHANGED <<numCards, markup, autoPlay, interval, startIdx>>

\* time passes by one quantum; a due interval callback runs before time moves on
CarouselTimePasses ==
    /\ DOMAIN liveIntervals # {}
    /\ \A id \in DOMAIN liveIntervals : liveIntervals[id] < QuantaPerInterval
    /\ liveIntervals' = [id \in DOMAIN liveIntervals |-> liveIntervals[id] + 1]
    /\ sinceAdvance' = IF sinceAdvance < QuantaPerInterval THEN sinceAdvance + 1
                       ELSE QuantaPerInterval
    /\ lastEvent' = <<"time", 0>>
    /\ UNCHANGED <<numCards, markup, cardsActive, dotsActive, currentSlide,
                   autoPlay, interval, sliderThrew, startIdx, advCount>>

\* the running intervals after a dot click: the listener calls goToSlide only
\* and leaves the timer as it is
TimersAfterClick_Restart(live) == [id \in DOMAIN live |-> 0]
TimersAfterClick(live) == live

\* click on dot index: goToSlide(index)
DotClick(index) ==
    /\ index \in Cards
    /\ GoToSlide(index)
    /\ liveIntervals' = TimersAfterClick(liveIntervals)
    /\ startIdx' = index
    /\ advCount' = 0
    /\ lastEvent' = <<"dot", index>>
    /\ UNCHANGED <<numCards, markup, autoPlay, interval, sinceAdvance>>

\* mouseenter on the slider: this.autoPlay = false (the interval is left running)
MouseEnter ==
    /\ autoPlay' = FALSE
    /\ lastEvent' = <<"mouseenter", 0>>
    /\ UNCHANGED <<numCards, markup, cardsActive, dotsActive, currentSlide,
                   interval, sliderThrew, liveIntervals, startIdx, advCount,
                   sinceAdvance>>

\* mouseleave on the slider: this.autoPlay = true; this.startAutoPlay()
MouseLeave ==
    /\ autoPlay' = TRUE
    /\ StartAutoPlay(TRUE)
    /\ lastEvent' = <<"mouseleave", 0>>
    /\ UNCHANGED <<numCards, markup, cardsActive, dotsActive, currentSlide,
                   sliderThrew, startIdx, advCount, sinceAdvance>>

-----------------------------------------------------------------------------
(* DestinationFilter *)

FilterValues == {"all", "beach", "city"}
Buttons == DOMAIN btnFilter
DestCards == DOMAIN cardCategory

\* the markup: any number of buttons and cards, any marks
FilterInit ==
    /\ \E nb \in 1 .. MaxButtons : btnFilter \in [1 .. nb -> FilterValues]
    /\ \E nc \in 1 .. MaxDestCards : cardCategory \in [1 .. nc -> FilterValues]
    /\ btnActive \in SUBSET DOMAIN btnFilter
    /\ cardHidden \in SUBSET DOMAIN cardCategory
    /\ cardAnimation = {}
    /\ lastClicked = 0
    /\ everHidden = {}

FilterIdle ==
    /\ btnFilter = [b \in {1} |-> "all"]
    /\ cardCategory = [c \in {1} |-> "beach"]
    /\ btnActive = {1}
    /\ cardHidden = {}
    /\ cardAnimation = {}
    /\ lastClicked = 0
    /\ everHidden = {}

\* the test of filter(): category === 'all' || card.dataset.category === category
Matches_NoWildcard(category, card) == cardCategory[card] = category
Matches(category, card) == category = "all" \/ cardCategory[card] = category

\* filter(category): every card is shown (and animated) or flagged hidden
Filter(category) ==
    /\ cardHidden' = {c \in DestCards : ~Matches(category, c)}
    /\ everHidden' = everHidden \cup {c \in DestCards : ~Matches(category, c)}
    /\ cardAnimation' = cardAnimation \cup {c \in DestCards : Matches(category, c)}

\* the marks of the buttons after a click on btn
ActiveAfterClick_NoClear(btn) == btnActive \cup {btn}
ActiveAfterClick(btn) == (btnActive \ Buttons) \cup {btn}

\* click on a filter button
FilterClick(btn) ==
    /\ btn \in Buttons
    /\ btnActive' = ActiveAfterClick(btn)
    /\ Filter(btnFilter[btn])
    /\ lastClicked' = btn
    /\ lastEvent' = <<"filter", btn>>
    /\ UNCHANGED <<btnFilter, cardCategory>>

-----------------------------------------------------------------------------
(* Who writes the state that several controllers reach *)

Controllers == {"Loader", "Navigation", "SearchModal", "ActiveNavLink"}
Resources == {"body.overflow", "navlink.active"}

\* writers after controller c has written the resources rs
Wrote(c, rs) == [r \in Resources |-> IF r \in rs THEN writers[r] \cup {c} ELSE writers[r]]

WritersInit == writers = [r \in Resources |-> {}]

-----------------------------------------------------------------------------
(* document.body.style.overflow *)

\* the inline style before any handler ran: none, or the markup locks scrolling
\* while the loading screen is up
OverflowInit == bodyOverflow \in {"", "hidden"}
OverflowIdle == bodyOverflow = ""

-----------------------------------------------------------------------------
(* SearchModal *)

Keys == {"Escape", "Enter"}
ClickTargets == {"backdrop", "content"}

SearchInit ==
    /\ searchActive = FALSE
    /\ focusPending = 0
    /\ inputFocused = FALSE

\* open(): show the overlay, lock page scroll, focus the input 100 ms later
Open ==
    /\ searchActive' = TRUE
    /\ bodyOverflow' = "hidden"
    /\ focusPending' = focusPending + 1
    /\ writers' = Wrote("SearchModal", {"body.overflow"})
    /\ UNCHANGED inputFocused

\* close(): hide the overlay, release page scroll
Close ==
    /\ searchActive' = FALSE
    /\ bodyOverflow' = ""
    /\ writers' = Wrote("SearchModal", {"body.overflow"})
    /\ UNCHANGED <<focusPending, inputFocused>>

\* click on #searchBtn
SearchBtnClick ==
    /\ focusPending < MaxFocusPending
    /\ Open
    /\ lastEvent' = <<"search.open", 0>>

\* click on #searchClose (it bubbles to the overlay with the button as target)
SearchCloseClick ==
    /\ Close
    /\ lastEvent' = <<"search.close", 0>>

\* the overlay's click listener closes when e.target === this.searchModal
ClosesOn_AnyTarget(target) == TRUE
ClosesOn(target) == target = "backdrop"

\* click inside #searchModal, on the backdrop itself or on its content
SearchModalClick(target) ==
    /\ IF ClosesOn(target)
       THEN Close
       ELSE UNCHANGED <<searchActive, bodyOverflow, focusPending, inputFocused, writers>>
    /\ lastEvent' = <<"search.click", target>>

\* the 100 ms timer of open(): this.searchInput?.focus()
FocusTimer ==
    /\ focusPending > 0
    /\ focusPending' = focusPending - 1
    /\ inputFocused' = TRUE
    /\ lastEvent' = <<"search.focus", 0>>
    /\ UNCHANGED <<searchActive, bodyOverflow, writers>>

\* SearchModal's document keydown listener
SearchKeyDown(key) ==
    IF key = "Escape" /\ searchActive
    THEN Close
    ELSE UNCHANGED <<searchActive, bodyOverflow, focusPending, inputFocused, writers>>

-----------------------------------------------------------------------------
(* GalleryLightbox *)

LightboxInit ==
    /\ lightboxes = {}
    /\ lbStyles = {}
    /\ keyListeners = {}
    /\ nextLightbox = 1

\* openLightbox(img): a new lightbox node and style node, three listeners
OpenLightbox ==
    /\ lightboxes' = lightboxes \cup {nextLightbox}
    /\ lbStyles' = lbStyles \cup {nextLightbox}
    /\ keyListeners' = keyListeners \cup {nextLightbox}
    /\ nextLightbox' = nextLightbox + 1

\* click on a .gallery-item
GalleryItemClick ==
    /\ nextLightbox <= MaxOpens
    /\ OpenLightbox
    /\ lastEvent' = <<"gallery.click", nextLightbox>>

\* the teardown every dismiss handler of lightbox lb runs:
\* lightbox.remove(); style.remove()
Teardown_LeaveStyle(lbs) ==
    /\ lightboxes' = lightboxes \ lbs
    /\ lbStyles' = lbStyles
Teardown(lbs) ==
    /\ lightboxes' = lightboxes \ lbs
    /\ lbStyles' = lbStyles \ lbs

\* click on the .lightbox-close button of an attached lightbox
LightboxCloseClick(lb) ==
    /\ lb \in lightboxes
    /\ Teardown({lb})
    /\ lastEvent' = <<"lightbox.close", lb>>
    /\ UNCHANGED <<keyListeners, nextLightbox>>

\* click inside an attached lightbox; it is torn down when e.target === lightbox
LightboxClick(lb, target) ==
    /\ lb \in lightboxes
    /\ IF target = "backdrop" THEN Teardown({lb}) ELSE UNCHANGED <<lightboxes, lbStyles>>
    /\ lastEvent' = <<"lightbox." \o target, lb>>
    /\ UNCHANGED <<keyListeners, nextLightbox>>

\* the document keydown listeners openLightbox() registered; none is ever removed
LightboxKeyDown(key) ==
    /\ IF key = "Escape" THEN Teardown(keyListeners) ELSE UNCHANGED <<lightboxes, lbStyles>>
    /\ UNCHANGED <<keyListeners, nextLightbox>>

\* a keydown event on the document runs every registered listener
KeyDown(key) ==
    /\ SearchKeyDown(key)
    /\ LightboxKeyDown(key)
    /\ lastEvent' = <<"keydown", key>>

-----------------------------------------------------------------------------
(* CounterAnimation *)

\* const duration = 2000; the frame length in const step = target / (duration / 16)
Duration == 2000
FrameMs == 16

\* the characters a data-count attribute is drawn from
CountChars == {"0", "1", " ", "-", "K"}
Digits == {"0", "1", "2", "3", "4", "5", "6", "7", "8", "9"}
DigitVal(ch) == CASE ch = "0" -> 0 [] ch = "1" -> 1 [] ch = "2" -> 2 [] ch = "3" -> 3
                  [] ch = "4" -> 4 [] ch = "5" -> 5 [] ch = "6" -> 6 [] ch = "7" -> 7
                  [] ch = "8" -> 8 [] ch = "9" -> 9
DigitChar(d) == CHOOSE ch \in Digits : DigitVal(ch) = d

CountStrings == UNION {[1 .. n -> CountChars] : n \in 0 .. MaxCountLen}

RECURSIVE SkipSpaces(_)
SkipSpaces(str) ==
    IF str # <<>> /\ Head(str) = " " THEN SkipSpaces(Tail(str)) ELSE str

\* the value of the longest prefix of digits, acc being the value read so far
RECURSIVE ReadDigits(_, _)
ReadDigits(str, acc) ==
    IF str # <<>> /\ Head(str) \in Digits
    THEN ReadDigits(Tail(str), 10 * acc + DigitVal(Head(str)))
    ELSE acc

\* parseInt(string): leading white space is skipped, then an optional sign, then
\* the longest prefix of decimal digits; NaN when there is none
ParseInt(string) ==
    LET s1 == SkipSpaces(string)
        neg == s1 # <<>> /\ Head(s1) = "-"
        s2 == IF neg THEN Tail(s1) ELSE s1
    IN IF s2 = <<>> \/ Head(s2) \notin Digits
       THEN [nan |-> TRUE, val |-> 0]
       ELSE [nan |-> FALSE, val |-> IF neg THEN 0 - ReadDigits(s2, 0) ELSE ReadDigits(s2, 0)]

\* Number -> String for an integer
RECURSIVE NatToStr(_)
NatToStr(n) ==
    IF n < 10 THEN <<DigitChar(n)>> ELSE NatToStr(n \div 10) \o <<DigitChar(n % 10)>>
NumToStr(n) == IF n < 0 THEN <<"-">> \o NatToStr(0 - n) ELSE NatToStr(n)
TargetToStr(t) == IF t.nan THEN <<"N", "a", "N">> ELSE NumToStr(t.val)

\* counter.dataset.count === '10' ? '' : 'K+'
Suffix(count) == IF count = <<"1", "0">> THEN <<>> ELSE <<"K", "+">>

\* current < target after k additions of step = target / (duration / 16), in
\* exact arithmetic: k * target * 16 / 2000 < target (false for NaN).  In
\* doubles the accumulated sum may cross target one frame later.
Below(k, t) == ~t.nan /\ k * t.val * FrameMs < t.val * Duration
\* Math.floor(current)
FloorCurrent(k, t) == (k * t.val * FrameMs) \div Duration

CounterInit ==
    /\ dataCount \in CountStrings
    /\ counterText = <<"0">>
    /\ frames = 0
    /\ rafPending = FALSE
    /\ counterObserved = TRUE
    /\ counterStarted = FALSE
    /\ counterStarts = 0

CounterIdle ==
    /\ dataCount = <<"1", "0">>
    /\ counterText = <<"0">>
    /\ frames = 0
    /\ rafPending = FALSE
    /\ counterObserved = TRUE
    /\ counterStarted = FALSE
    /\ counterStarts = 0

\* updateCounter(): current += step, then an intermediate text and another
\* frame, or the final text
UpdateCounter ==
    LET t == ParseInt(dataCount)
        k == frames + 1
    IN /\ frames' = k
       /\ IF Below(k, t)
          THEN /\ counterText' = NumToStr(FloorCurrent(k, t)) \o Suffix(dataCount)
               /\ rafPending' = TRUE
          ELSE /\ counterText' = TargetToStr(t) \o Suffix(dataCount)
               /\ rafPending' = FALSE

\* the intersection observer's callback with one entry for the counter
CounterIntersect(isIntersecting) ==
    /\ counterObserved
    /\ IF isIntersecting
       THEN /\ UpdateCounter
            /\ counterStarted' = TRUE
            /\ counterStarts' = counterStarts + 1
            /\ counterObserved' = FALSE
       ELSE UNCHANGED <<counterText, frames, rafPending, counterStarted, counterStarts,
                        counterObserved>>
    /\ lastEvent' = <<"counter.intersect", isIntersecting>>
    /\ UNCHANGED dataCount

\* the requestAnimationFrame callback
AnimationFrame ==
    /\ rafPending
    /\ UpdateCounter
    /\ lastEvent' = <<"counter.frame", 0>>
    /\ UNCHANGED <<dataCount, counterObserved, counterStarted, counterStarts>>

-----------------------------------------------------------------------------
(* Scroll listeners: Navigation.handleScroll, ScrollProgress, BackToTop,    *)
(* ParallaxEffect                                                          *)

\* window.scrollY > 50 and window.scrollY > 500
NavThreshold == 50
TopThreshold == 500

Throttled == {"nav", "progress", "top", "parallax"}

\* heights of the scrollable range, scrollHeight - innerHeight, and of the viewport
DocHeights == (0 .. MaxSmallScroll) \cup {600}
ViewportHeights == {2, 100}
\* the scroll positions tried in a document whose scrollable range is h
Positions(h) == {s \in (0 .. MaxSmallScroll) \cup {50, 51, 500, 501} : s <= h} \cup {h}

RECURSIVE Gcd(_, _)
Gcd(a, b) == IF b = 0 THEN a ELSE Gcd(b, a % b)

\* JavaScript numbers: a fraction in lowest terms, NaN or Infinity
Num(n, d) == LET g == Gcd(n, d) IN [kind |-> "fin", num |-> n \div g, den |-> d \div g]
NaN == [kind |-> "nan", num |-> 0, den |-> 1]
Infinity == [kind |-> "inf", num |-> 0, den |-> 1]
Unset == [kind |-> "unset", num |-> 0, den |-> 1]

\* a / b for integers a >= 0, b >= 0
JsDiv(a, b) == IF b = 0 THEN (IF a = 0 THEN NaN ELSE Infinity) ELSE Num(a, b)
\* x * k for an integer k > 0
JsTimes(x, k) == IF x.kind = "fin" THEN Num(x.num * k, x.den) ELSE x

\* (scrollTop / (scrollHeight - innerHeight)) * 100
ScrollPercent_NoViewport(scrollTop, sh, ih) == JsTimes(JsDiv(scrollTop, sh), 100)
ScrollPercent(scrollTop, sh, ih) == JsTimes(JsDiv(scrollTop, sh - ih), 100)

ScrollInit ==
    /\ innerHeight \in ViewportHeights
    /\ \E h \in DocHeights : scrollHeight = innerHeight + h
    /\ scrollY = 0
    /\ navScrolled = FALSE
    /\ progressWidth = Unset
    /\ btnVisible = FALSE
    /\ parallaxAt = 0
    /\ inThrottle = [t \in Throttled |-> FALSE]

ScrollIdle ==
    /\ innerHeight = 100
    /\ scrollHeight = 100
    /\ scrollY = 0
    /\ navScrolled = FALSE
    /\ progressWidth = Unset
    /\ btnVisible = FALSE
    /\ parallaxAt = 0
    /\ inThrottle = [t \in Throttled |-> FALSE]

\* a scroll event at position s: the four throttled listeners, each skipped
\* while its inThrottle flag is set and setting it when it runs.  The smooth
\* scrolls window.scrollTo requests (Utils.scrollTo, the #backToTop click)
\* arrive as such scroll events.
Scroll(s) ==
    /\ s \in Positions(scrollHeight - innerHeight)
    /\ scrollY' = s
    /\ navScrolled' = IF inThrottle["nav"] THEN navScrolled ELSE s > NavThreshold
    /\ progressWidth' = IF inThrottle["progress"] THEN progressWidth
                        ELSE ScrollPercent(s, scrollHeight, innerHeight)
    /\ btnVisible' = IF inThrottle["top"] THEN btnVisible ELSE s > TopThreshold
    /\ parallaxAt' = IF inThrottle["parallax"] \/ ~(s < innerHeight) THEN parallaxAt ELSE s
    /\ inThrottle' = [t \in Throttled |-> TRUE]
    /\ lastEvent' = <<"scroll", s>>
    /\ UNCHANGED <<scrollHeight, innerHeight>>

\* the timer of a throttle wrapper: setTimeout(() => inThrottle = false, limit)
ThrottleTimer(t) ==
    /\ inThrottle[t]
    /\ inThrottle' = [inThrottle EXCEPT ![t] = FALSE]
    /\ lastEvent' = <<"throttle.timer", t>>
    /\ UNCHANGED <<scrollHeight, innerHeight, scrollY, navScrolled, progressWidth,
                   btnVisible, parallaxAt>>

-----------------------------------------------------------------------------
(* Loader *)

\* setTimeout(() => this.hide(), 1500); one quantum of model time is
\* HideDelay / HideQuanta ms
HideDelay == 1500

\* the constructor registers the load listener; the load event is still to
\* come, or has fired already (the script ran late)
LoaderInitAt(before) ==
    /\ loadedBefore = before
    /\ loadFired = FALSE
    /\ hidePending = FALSE
    /\ hideElapsed = 0
    /\ loaderHidden = FALSE

LoaderInit == LoaderInitAt(FALSE)

\* the window's load event (once per page): setTimeout(() => this.hide(), 1500)
LoadEvent ==
    /\ ~loadedBefore
    /\ ~loadFired
    /\ loadFired' = TRUE
    /\ hidePending' = TRUE
    /\ hideElapsed' = 0
    /\ lastEvent' = <<"load", 0>>
    /\ UNCHANGED <<loadedBefore, loaderHidden, bodyOverflow, writers>>

\* the timer of the load listener is due
HideDue_AtOnce(elapsed) == TRUE
HideDue(elapsed) == elapsed = HideQuanta

\* the 1500 ms timer: hide()
LoaderHide ==
    /\ hidePending
    /\ HideDue(hideElapsed)
    /\ hidePending' = FALSE
    /\ loaderHidden' = TRUE
    /\ bodyOverflow' = "auto"
    /\ writers' = Wrote("Loader", {"body.overflow"})
    /\ lastEvent' = <<"loader.hide", 0>>
    /\ UNCHANGED <<loadedBefore, loadFired, hideElapsed>>

\* time passes by one quantum while the timer is pending; the callback runs
\* when it is due, before time moves on
LoaderTimePasses ==
    /\ hidePending
    /\ hideElapsed < HideQuanta
    /\ hideElapsed' = hideElapsed + 1
    /\ lastEvent' = <<"time", 0>>
    /\ UNCHANGED <<loadedBefore, loadFired, hidePending, loaderHidden, bodyOverflow, writers>>

-----------------------------------------------------------------------------
(* Navigation (click listeners) and ActiveNavLink *)

\* window.innerWidth <= 1024
NarrowWidth == 1024

Links == DOMAIN linkHref
Sections == 1 .. MaxSections
\* the links of this.navLinks: .nav-link[data-scroll]
ScrollLinks == {l \in Links : linkScroll[l]}

\* the markup: every .nav-link has an href naming a section, or an id no element
\* has (0), and may carry data-scroll; one of them may be a dropdown's link
NavInit ==
    /\ linkHref \in [1 .. MaxLinks -> 0 .. MaxSections]
    /\ linkScroll \in [1 .. MaxLinks -> BOOLEAN]
    /\ dropLink \in 0 .. MaxLinks
    /\ narrow = FALSE
    /\ hamburgerActive = FALSE
    /\ menuActive = FALSE
    /\ dropdownActive = FALSE
    /\ linkActive = {}
    /\ defaultPrevented = FALSE

\* one markup: in-page links with data-scroll, link l to section l, and a last
\* link without data-scroll that is the dropdown's
NavTypical ==
    /\ linkHref = [l \in 1 .. MaxLinks |-> IF l <= MaxSections THEN l ELSE 0]
    /\ linkScroll = [l \in 1 .. MaxLinks |-> l # MaxLinks]
    /\ dropLink = MaxLinks
    /\ narrow = FALSE
    /\ hamburgerActive = FALSE
    /\ menuActive = FALSE
    /\ dropdownActive = FALSE
    /\ linkActive = {}
    /\ defaultPrevented = FALSE

NavIdle ==
    /\ linkHref = [l \in {1} |-> 1]
    /\ linkScroll = [l \in {1} |-> TRUE]
    /\ dropLink = 0
    /\ narrow = FALSE
    /\ hamburgerActive = FALSE
    /\ menuActive = FALSE
    /\ dropdownActive = FALSE
    /\ linkActive = {}
    /\ defaultPrevented = FALSE

\* the window is resized across the 1024 px breakpoint
Resize ==
    /\ narrow' = ~narrow
    /\ lastEvent' = <<"resize", 0>>
    /\ UNCHANGED <<linkHref, linkScroll, dropLink, hamburgerActive, menuActive,
                   dropdownActive, linkActive, defaultPrevented, bodyOverflow, writers>>

\* click on #hamburger: toggle both marks, lock page scroll iff the menu is open
HamburgerClick ==
    /\ hamburgerActive' = ~hamburgerActive
    /\ menuActive' = ~menuActive
    /\ bodyOverflow' = IF menuActive' THEN "hidden" ELSE ""
    /\ writers' = Wrote("Navigation", {"body.overflow"})
    /\ lastEvent' = <<"hamburger", 0>>
    /\ UNCHANGED <<linkHref, linkScroll, dropLink, narrow, dropdownActive, linkActive,
                   defaultPrevented>>

\* handleDropdown's listener on the dropdown's link
DropdownListener(l) ==
    dropdownActive' = IF l = dropLink /\ narrow THEN ~dropdownActive ELSE dropdownActive

\* handleNavLinks's listener on a .nav-link[data-scroll]
NavLinkListener(l) ==
    IF linkScroll[l] /\ linkHref[l] # 0
    THEN /\ linkActive' = (linkActive \ ScrollLinks) \cup {l}
         /\ IF narrow
            THEN /\ hamburgerActive' = FALSE
                 /\ menuActive' = FALSE
                 /\ bodyOverflow' = ""
                 /\ writers' = Wrote("Navigation", {"navlink.active", "body.overflow"})
            ELSE /\ UNCHANGED <<hamburgerActive, menuActive, bodyOverflow>>
                 /\ writers' = Wrote("Navigation", {"navlink.active"})
    ELSE UNCHANGED <<linkActive, hamburgerActive, menuActive, bodyOverflow, writers>>

\* click on nav link l: the listeners registered on it, in registration order
NavLinkClick(l) ==
    /\ l \in Links
    /\ DropdownListener(l)
    /\ NavLinkListener(l)
    /\ defaultPrevented' = ((l = dropLink /\ narrow) \/ linkScroll[l])
    /\ lastEvent' = <<"navlink", l>>
    /\ UNCHANGED <<linkHref, linkScroll, dropLink, narrow>>

\* updateActiveLink(sectionId) on the marks in active: every .nav-link loses
\* the mark, those whose href is '#' + sectionId get it
UpdateActiveLink_NoClear(sectionId, active) ==
    active \cup {l \in Links : linkHref[l] = sectionId}
UpdateActiveLink(sectionId, active) == {l \in Links : linkHref[l] = sectionId}

\* the observer callback: entries.forEach, in order
RECURSIVE AfterEntries(_, _)
AfterEntries(entries, active) ==
    IF entries = <<>> THEN active
    ELSE AfterEntries(Tail(entries),
                      IF Head(entries)[2] THEN UpdateActiveLink(Head(entries)[1], active)
                      ELSE active)

\* the section of the last intersecting entry of a batch, 0 when there is none
RECURSIVE LastIntersecting(_)
LastIntersecting(entries) ==
    IF entries = <<>> THEN 0
    ELSE IF entries[Len(entries)][2] THEN entries[Len(entries)][1]
    ELSE LastIntersecting(SubSeq(entries, 1, Len(entries) - 1))

Batches == UNION {[1 .. n -> Sections \X BOOLEAN] : n \in 1 .. MaxBatch}

\* ActiveNavLink's intersection observer delivers a batch of entries
SectionsIntersect(entries) ==
    /\ linkActive' = AfterEntries(entries, linkActive)
    /\ writers' = IF \E i \in DOMAIN entries : entries[i][2]
                  THEN Wrote("ActiveNavLink", {"navlink.active"})
                  ELSE writers
    /\ lastEvent' = <<"sections", LastIntersecting(entries)>>
    /\ UNCHANGED <<linkHref, linkScroll, dropLink, narrow, hamburgerActive, menuActive,
                   dropdownActive, defaultPrevented, bodyOverflow>>

-----------------------------------------------------------------------------
(* Utils.debounce and Utils.throttle, each wrapping one action *)

\* the arguments the wrapped functions are called with
Args == {"a", "b"}
NoArgs == "none"

\* the wrappers as Utils.debounce(func, wait) and Utils.throttle(func, limit)
\* return them: no timer, timeout and inThrottle undefined.  One quantum of
\* model time is wait / WaitQuanta ms for the one, limit / LimitQuanta ms for
\* the other.
RateInit ==
    /\ dbTimers = << >>
    /\ dbTimeout = 0
    /\ dbCalls = 0
    /\ dbRuns = 0
    /\ dbLastArgs = NoArgs
    /\ dbRanArgs = NoArgs
    /\ dbQuiet = 0
    /\ dbBurstRuns = 0
    /\ thFlag = FALSE
    /\ thTimers = << >>
    /\ thCalls = 0
    /\ thRuns = 0
    /\ thSince = 0

\* clearTimeout(id): the timer with that id, if pending, is cancelled
ClearTimeout_Keep(timers, id) == timers
ClearTimeout(timers, id) == [t \in DOMAIN timers \ {id} |-> timers[t]]

\* executedFunction(...args): clearTimeout(timeout); timeout = setTimeout(later, wait)
DebouncedCall(args) ==
    /\ dbCalls < MaxCalls
    /\ LET cleared == ClearTimeout(dbTimers, dbTimeout)
           new == FreshId(cleared)
       IN /\ dbTimeout' = new
          /\ dbTimers' = [t \in DOMAIN cleared \cup {new} |->
                             IF t = new THEN [args |-> args, elapsed |-> 0] ELSE cleared[t]]
    /\ dbCalls' = dbCalls + 1
    /\ dbLastArgs' = args
    /\ dbQuiet' = 0
    /\ dbBurstRuns' = 0
    /\ lastEvent' = <<"debounce.call", args>>
    /\ UNCHANGED <<dbRuns, dbRanArgs>>

\* later(), the callback of a timer that is due: clearTimeout(timeout); func(...args)
Later(id) ==
    /\ id \in DOMAIN dbTimers
    /\ dbTimers[id].elapsed = WaitQuanta
    /\ dbTimers' = ClearTimeout([t \in DOMAIN dbTimers \ {id} |-> dbTimers[t]], dbTimeout)
    /\ dbRuns' = dbRuns + 1
    /\ dbBurstRuns' = dbBurstRuns + 1
    /\ dbRanArgs' = dbTimers[id].args
    /\ lastEvent' = <<"debounce.run", dbTimers[id].args>>
    /\ UNCHANGED <<dbTimeout, dbCalls, dbLastArgs, dbQuiet>>

\* the test of the throttled function: if (!inThrottle)
Passes_Always(flag) == TRUE
Passes(flag) == ~flag

\* the throttled function: when inThrottle is not set, func.apply(this, args),
\* inThrottle = true and a timer of limit ms; else nothing
ThrottledCall(args) ==
    /\ thCalls < MaxCalls
    /\ thCalls' = thCalls + 1
    /\ IF Passes(thFlag)
       THEN /\ thRuns' = thRuns + 1
            /\ thSince' = 0
            /\ thFlag' = TRUE
            /\ LET new == FreshId(thTimers)
               IN thTimers' = [t \in DOMAIN thTimers \cup {new} |->
                                  IF t = new THEN 0 ELSE thTimers[t]]
       ELSE UNCHANGED <<thRuns, thSince, thFlag, thTimers>>
    /\ lastEvent' = <<"throttle.call", args>>

\* the callback of a throttle timer that is due: inThrottle = false
ThrottleRelease(id) ==
    /\ id \in DOMAIN thTimers
    /\ thTimers[id] = LimitQuanta
    /\ thTimers' = [t \in DOMAIN thTimers \ {id} |-> thTimers[t]]
    /\ thFlag' = FALSE
    /\ lastEvent' = <<"throttle.release", id>>
    /\ UNCHANGED <<thCalls, thRuns, thSince>>

\* time passes by one quantum; a timer callback that is due runs before time
\* moves on
RateTimePasses ==
    /\ \A t \in DOMAIN dbTimers : dbTimers[t].elapsed < WaitQuanta
    /\ \A t \in DOMAIN thTimers : thTimers[t] < LimitQuanta
    /\ dbTimers' = [t \in DOMAIN dbTimers |->
                       [dbTimers[t] EXCEPT !.elapsed = dbTimers[t].elapsed + 1]]
    /\ thTimers' = [t \in DOMAIN thTimers |-> thTimers[t] + 1]
    /\ dbQuiet' = IF dbQuiet <= WaitQuanta THEN dbQuiet + 1 ELSE dbQuiet
    /\ thSince' = IF thSince <= LimitQuanta THEN thSince + 1 ELSE thSince
    /\ lastEvent' = <<"time", 0>>
    /\ UNCHANGED <<dbTimeout, dbCalls, dbRuns, dbLastArgs, dbRanArgs, dbBurstRuns,
                   thFlag, thCalls, thRuns>>

-----------------------------------------------------------------------------
(* Bootstrap: initApp and the readiness test *)

\* the constructors initApp calls, in its order
ControllerOrder ==
    <<"Loader", "Navigation", "ScrollProgress", "ScrollAnimations", "CounterAnimation",
      "DestinationFilter", "TestimonialsSlider", "SearchModal", "BackToTop",
      "FormHandler", "GalleryLightbox", "ParallaxEffect", "ActiveNavLink",
      "LikeButtonHandler">>

\* the elements a constructor dereferences without a presence check
Required == {"dropdown .nav-link", ".slider-dots", ".testimonials-slider", "#backToTop"}

\* the constructor of controller c throws: Navigation on a dropdown item
\* without a .nav-link, CounterAnimation and ActiveNavLink on new
\* IntersectionObserver when the platform has none (ScrollAnimations tests for
\* it), TestimonialsSlider on a missing dots container or slider, BackToTop on
\* a missing button
Throws(c) ==
    CASE c = "Navigation" -> "dropdown .nav-link" \in missingMarkup
      [] c \in {"CounterAnimation", "ActiveNavLink"} -> ~hasIO
      [] c = "TestimonialsSlider" ->
             missingMarkup \cap {".slider-dots", ".testimonials-slider"} # {}
      [] c = "BackToTop" -> "#backToTop" \in missingMarkup
      [] OTHER -> FALSE

\* the controllers constructed from position i on: a constructor that throws
\* ends initApp
RECURSIVE ConstructFrom(_)
ConstructFrom(i) ==
    IF i > Len(ControllerOrder) \/ Throws(ControllerOrder[i]) THEN <<>>
    ELSE <<ControllerOrder[i]>> \o ConstructFrom(i + 1)

\* the page and platform the script finds
BootInit ==
    /\ readyState \in {"loading", "interactive", "complete"}
    /\ hasIO \in BOOLEAN
    /\ missingMarkup \in SUBSET Required
    /\ scriptRan = FALSE
    /\ dclListeners = 0
    /\ initRuns = 0
    /\ constructed = <<>>
    /\ logged = FALSE

\* the page after a bootstrap in which no constructor threw
BootIdle ==
    /\ readyState = "complete"
    /\ hasIO = TRUE
    /\ missingMarkup = {}
    /\ scriptRan = TRUE
    /\ dclListeners = 0
    /\ initRuns = 1
    /\ constructed = ControllerOrder
    /\ logged = TRUE

\* initApp(): the constructors in order, then the log line
InitApp ==
    /\ initRuns' = initRuns + 1
    /\ constructed' = constructed \o ConstructFrom(1)
    /\ logged' = (logged \/ Len(ConstructFrom(1)) = Len(ControllerOrder))

\* the script's top level: register initApp for DOMContentLoaded while the
\* document is loading, else call it
RunScript ==
    /\ ~scriptRan
    /\ scriptRan' = TRUE
    /\ IF readyState = "loading"
       THEN /\ dclListeners' = dclListeners + 1
            /\ UNCHANGED <<initRuns, constructed, logged>>
       ELSE /\ InitApp
            /\ UNCHANGED dclListeners
    /\ lastEvent' = <<"script", 0>>
    /\ UNCHANGED <<readyState, hasIO, missingMarkup>>

\* the document's DOMContentLoaded event, after parsing (and the script) ended
DOMContentLoaded ==
    /\ scriptRan
    /\ readyState = "loading"
    /\ readyState' = "interactive"
    /\ IF dclListeners > 0
       THEN InitApp
       ELSE UNCHANGED <<initRuns, constructed, logged>>
    /\ lastEvent' = <<"DOMContentLoaded", 0>>
    /\ UNCHANGED <<hasIO, missingMarkup, scriptRan, dclListeners>>

\* the document finishes loading
ReadyComplete ==
    /\ scriptRan
    /\ readyState = "interactive"
    /\ readyState' = "complete"
    /\ lastEvent' = <<"readystatechange", 0>>
    /\ UNCHANGED <<hasIO, missingMarkup, scriptRan, dclListeners, initRuns, constructed,
                   logged>>

-----------------------------------------------------------------------------
(* FormHandler *)

\* setTimeout(resolve, 1000) and setTimeout(..., 3000); one quantum of model
\* time is 1000 / QuantaPerSecond ms
LoadingTime == 1000
NotificationTime == 3000
LoadingQuanta == (LoadingTime * QuantaPerSecond) \div 1000
NotificationQuanta == (NotificationTime * QuantaPerSecond) \div 1000

Forms == {"contactForm", "newsletterForm"}

FormInit ==
    /\ formFilled = [f \in Forms |-> FALSE]
    /\ submits = 0
    /\ prevented = 0
    /\ submitTimers = << >>
    /\ notifications = {}
    /\ notifStyles = {}
    /\ removeTimers = << >>
    /\ notifOf = << >>

\* the user types into a field of form f
FormInput(f) ==
    /\ ~formFilled[f]
    /\ formFilled' = [formFilled EXCEPT ![f] = TRUE]
    /\ lastEvent' = <<"form.input", f>>
    /\ UNCHANGED <<submits, prevented, submitTimers, notifications, notifStyles,
                   removeTimers, notifOf>>

\* handleContactSubmit / handleNewsletterSubmit up to the await:
\* e.preventDefault(), then simulateLoading() sets a timer of 1000 ms
Submit(f) ==
    /\ submits < MaxSubmits
    /\ submits' = submits + 1
    /\ prevented' = prevented + 1
    /\ submitTimers' = [s \in DOMAIN submitTimers \cup {submits + 1} |->
                           IF s = submits + 1 THEN [form |-> f, elapsed |-> 0]
                           ELSE submitTimers[s]]
    /\ lastEvent' = <<"form.submit", f>>
    /\ UNCHANGED <<formFilled, notifications, notifStyles, removeTimers, notifOf>>

\* showNotification(message, type) for submit s: a notification node, a style
\* node and a timer of 3000 ms that removes both
ShowNotification(s, type) ==
    LET n == Len(notifOf) + 1
    IN /\ notifications' = notifications \cup {n}
       /\ notifStyles' = notifStyles \cup {n}
       /\ removeTimers' = [k \in DOMAIN removeTimers \cup {n} |->
                              IF k = n THEN 0 ELSE removeTimers[k]]
       /\ notifOf' = Append(notifOf, [type |-> type, submit |-> s])

\* the simulateLoading() timer of submit s is due and the handler resumes:
\* showNotification(..., 'success'); form.reset()
SubmitResumes(s) ==
    /\ s \in DOMAIN submitTimers
    /\ submitTimers[s].elapsed = LoadingQuanta
    /\ submitTimers' = [k \in DOMAIN submitTimers \ {s} |-> submitTimers[k]]
    /\ ShowNotification(s, "success")
    /\ formFilled' = [formFilled EXCEPT ![submitTimers[s].form] = FALSE]
    /\ lastEvent' = <<"form.notify", s>>
    /\ UNCHANGED <<submits, prevented>>

\* the nodes left by notification.remove(); style.remove() for notification n
AfterRemove_LeaveStyle(nodes, styles, n) == <<nodes \ {n}, styles>>
AfterRemove(nodes, styles, n) == <<nodes \ {n}, styles \ {n}>>

\* the 3000 ms timer of notification n is due
NotificationTimeout(n) ==
    /\ n \in DOMAIN removeTimers
    /\ removeTimers[n] = NotificationQuanta
    /\ removeTimers' = [k \in DOMAIN removeTimers \ {n} |-> removeTimers[k]]
    /\ notifications' = AfterRemove(notifications, notifStyles, n)[1]
    /\ notifStyles' = AfterRemove(notifications, notifStyles, n)[2]
    /\ lastEvent' = <<"form.remove", n>>
    /\ UNCHANGED <<formFilled, submits, prevented, submitTimers, notifOf>>

\* time passes by one quantum while a form timer is pending; a timer callback
\* that is due runs before time moves on
FormTimePasses ==
    /\ DOMAIN submitTimers \cup DOMAIN removeTimers # {}
    /\ \A s \in DOMAIN submitTimers : submitTimers[s].elapsed < LoadingQuanta
    /\ \A n \in DOMAIN removeTimers : removeTimers[n] < NotificationQuanta
    /\ submitTimers' = [s \in DOMAIN submitTimers |->
                           [submitTimers[s] EXCEPT !.elapsed = submitTimers[s].elapsed + 1]]
    /\ removeTimers' = [n \in DOMAIN removeTimers |-> removeTimers[n] + 1]
    /\ lastEvent' = <<"time", 0>>
    /\ UNCHANGED <<formFilled, submits, prevented, notifications, notifStyles, notifOf>>

-----------------------------------------------------------------------------
(* ScrollAnimations *)

RevealElements == DOMAIN revealDelay

\* the constructor: with IntersectionObserver every [data-animate] element is
\* observed; without it every element is marked animated at once
RevealInitWith(io) ==
    /\ revealDelay \in [1 .. MaxReveal -> 0 .. MaxDelay]
    /\ revealObserved = IF io THEN 1 .. MaxReveal ELSE {}
    /\ revealTimers = << >>
    /\ revealMarked = IF io THEN {} ELSE 1 .. MaxReveal
    /\ revealHits = [e \in 1 .. MaxReveal |-> 0]

RevealIdle ==
    /\ revealDelay = [e \in {1} |-> 0]
    /\ revealObserved = {1}
    /\ revealTimers = << >>
    /\ revealMarked = {}
    /\ revealHits = [e \in {1} |-> 0]

\* the batches an observer delivers: entries <<target, isIntersecting>> of
\* elements it observes, each target at most once in a batch
RevealBatches(observed) ==
    {b \in UNION {[1 .. n -> observed \X BOOLEAN] : n \in 1 .. MaxBatch} :
        \A i, j \in DOMAIN b : i # j => b[i][1] # b[j][1]}

\* observer.unobserve(entry.target)
AfterUnobserve_Keep(observed, target) == observed
AfterUnobserve(observed, target) == observed \ {target}

\* the state <<observed, timers, hits>> after the callback's forEach over
\* entries: an intersecting entry sets a timer of the target's delay and
\* unobserves the target
RECURSIVE AfterReveal(_, _)
AfterReveal(entries, st) ==
    IF entries = <<>> THEN st
    ELSE LET e == Head(entries)[1]
             new == FreshId(st[2])
         IN AfterReveal(Tail(entries),
                IF Head(entries)[2]
                THEN << AfterUnobserve(st[1], e),
                        [t \in DOMAIN st[2] \cup {new} |->
                            IF t = new THEN [el |-> e, left |-> revealDelay[e]]
                            ELSE st[2][t]],
                        [st[3] EXCEPT ![e] = IF @ < MaxHits THEN @ + 1 ELSE @] >>
                ELSE st)

\* the observer's callback with a batch of entries
RevealIntersect(entries) ==
    /\ entries \in RevealBatches(revealObserved)
    /\ LET st == AfterReveal(entries, <<revealObserved, revealTimers, revealHits>>)
       IN /\ revealObserved' = st[1]
          /\ revealTimers' = st[2]
          /\ revealHits' = st[3]
    /\ lastEvent' = <<"reveal.intersect", Len(entries)>>
    /\ UNCHANGED <<revealDelay, revealMarked>>

\* the timer callback that is due: entry.target.classList.add('animated')
RevealTimer(id) ==
    /\ id \in DOMAIN revealTimers
    /\ revealTimers[id].left = 0
    /\ revealMarked' = revealMarked \cup {revealTimers[id].el}
    /\ revealTimers' = [t \in DOMAIN revealTimers \ {id} |-> revealTimers[t]]
    /\ lastEvent' = <<"reveal.mark", revealTimers[id].el>>
    /\ UNCHANGED <<revealDelay, revealObserved, revealHits>>

\* time passes by one quantum while a reveal timer is pending; a timer
\* callback that is due runs before time moves on
RevealTimePasses ==
    /\ DOMAIN revealTimers # {}
    /\ \A t \in DOMAIN revealTimers : revealTimers[t].left > 0
    /\ revealTimers' = [t \in DOMAIN revealTimers |->
                           [revealTimers[t] EXCEPT !.left = revealTimers[t].left - 1]]
    /\ lastEvent' = <<"time", 0>>
    /\ UNCHANGED <<revealDelay, revealObserved, revealMarked, revealHits>>

-----------------------------------------------------------------------------
(* ScrollAnimations' constructor, run by initApp *)

\* the page before initApp: no element observed or marked, no timer
RevealUnbuilt ==
    /\ revealDelay \in [1 .. MaxReveal -> 0 .. MaxDelay]
    /\ revealObserved = {}
    /\ revealTimers = << >>
    /\ revealMarked = {}
    /\ revealHits = [e \in 1 .. MaxReveal |-> 0]

\* the elements the fallback branch marks animated: forEach over all of them
FallbackMarked_None(els) == {}
FallbackMarked(els) == els

\* ScrollAnimations.init(): with IntersectionObserver observe every
\* [data-animate] element, without it mark every element animated
ScrollAnimationsInit ==
    /\ IF hasIO
       THEN /\ revealObserved' = RevealElements
            /\ revealMarked' = revealMarked
       ELSE /\ revealObserved' = revealObserved
            /\ revealMarked' = revealMarked \cup FallbackMarked(RevealElements)
    /\ UNCHANGED <<revealDelay, revealTimers, revealHits>>

\* the controllers of a sequence of constructor names
Built(seq) == {seq[i] : i \in DOMAIN seq}

\* what a step does to the reveal state: a step that runs initApp runs
\* ScrollAnimations' constructor unless an earlier constructor threw
RevealAtBoot ==
    IF initRuns' # initRuns /\ "ScrollAnimations" \in Built(ConstructFrom(1))
    THEN ScrollAnimationsInit
    ELSE UNCHANGED revealVars

-----------------------------------------------------------------------------
(* Specifications *)

NoEvent == <<"none", 0>>

InitCarousel ==
    /\ CarouselInit /\ FilterIdle /\ OverflowIdle /\ SearchInit /\ LightboxInit
    /\ CounterIdle /\ ScrollIdle
    /\ LoaderInit /\ NavIdle /\ WritersInit
    /\ RateInit
    /\ BootIdle
    /\ FormInit
    /\ RevealIdle
    /\ lastEvent = NoEvent

NotCarousel == <<filterVars, bodyOverflow, searchVars, lightboxVars, counterVars,
                 scrollVars, loaderVars, navVars, writers,
    rateVars,
    bootVars,
    formVars,
    revealVars>>

NextCarousel ==
    \/ \E id \in 1 .. 2 : TimerAdvance(id) /\ UNCHANGED NotCarousel
    \/ CarouselTimePasses /\ UNCHANGED NotCarousel
    \/ \E i \in 0 .. (MaxCards - 1) : DotClick(i) /\ UNCHANGED NotCarousel
    \/ MouseEnter /\ UNCHANGED NotCarousel
    \/ MouseLeave /\ UNCHANGED NotCarousel

SpecCarousel == InitCarousel /\ [][NextCarousel]_vars

InitFilter ==
    /\ FilterInit /\ CarouselIdle /\ OverflowIdle /\ SearchInit /\ LightboxInit
    /\ CounterIdle /\ ScrollIdle
    /\ LoaderInit /\ NavIdle /\ WritersInit
    /\ RateInit
    /\ BootIdle
    /\ FormInit
    /\ RevealIdle
    /\ lastEvent = NoEvent

NotFilter == <<carouselVars, bodyOverflow, searchVars, lightboxVars, counterVars,
               scrollVars, loaderVars, navVars, writers,
    rateVars,
    bootVars,
    formVars,
    revealVars>>

NextFilter ==
    \E b \in 1 .. MaxButtons : FilterClick(b) /\ UNCHANGED NotFilter

SpecFilter == InitFilter /\ [][NextFilter]_vars

\* the two overlays and the keydown events both listen to
InitOverlays ==
    /\ OverflowInit /\ SearchInit /\ LightboxInit /\ CarouselIdle /\ FilterIdle
    /\ CounterIdle /\ ScrollIdle
    /\ LoaderInit /\ NavIdle /\ WritersInit
    /\ RateInit
    /\ BootIdle
    /\ FormInit
    /\ RevealIdle
    /\ lastEvent = NoEvent

NotOverlays == <<carouselVars, filterVars, counterVars, scrollVars, loaderVars, navVars,
    rateVars,
    bootVars,
    formVars,
    revealVars>>

NextOverlays ==
    \/ SearchBtnClick /\ UNCHANGED <<NotOverlays, lightboxVars>>
    \/ SearchCloseClick /\ UNCHANGED <<NotOverlays, lightboxVars>>
    \/ \E t \in ClickTargets : SearchModalClick(t) /\ UNCHANGED <<NotOverlays, lightboxVars>>
    \/ FocusTimer /\ UNCHANGED <<NotOverlays, lightboxVars>>
    \/ GalleryItemClick /\ UNCHANGED <<NotOverlays, bodyOverflow, searchVars, writers>>
    \/ \E lb \in 1 .. MaxOpens :
          LightboxCloseClick(lb) /\ UNCHANGED <<NotOverlays, bodyOverflow, searchVars, writers>>
    \/ \E lb \in 1 .. MaxOpens, t \in ClickTargets :
          LightboxClick(lb, t) /\ UNCHANGED <<NotOverlays, bodyOverflow, searchVars, writers>>
    \/ \E k \in Keys : KeyDown(k) /\ UNCHANGED NotOverlays

SpecOverlays == InitOverlays /\ [][NextOverlays]_vars

InitCounter ==
    /\ CounterInit /\ CarouselIdle /\ FilterIdle /\ OverflowIdle /\ SearchInit
    /\ LightboxInit /\ ScrollIdle
    /\ LoaderInit /\ NavIdle /\ WritersInit
    /\ RateInit
    /\ BootIdle
    /\ FormInit
    /\ RevealIdle
    /\ lastEvent = NoEvent

NotCounter == <<carouselVars, filterVars, bodyOverflow, searchVars, lightboxVars,
                scrollVars, loaderVars, navVars, writers,
    rateVars,
    bootVars,
    formVars,
    revealVars>>

NextCounter ==
    \/ \E b \in BOOLEAN : CounterIntersect(b) /\ UNCHANGED NotCounter
    \/ AnimationFrame /\ UNCHANGED NotCounter

SpecCounter == InitCounter /\ [][NextCounter]_vars

InitScroll ==
    /\ ScrollInit /\ CarouselIdle /\ FilterIdle /\ OverflowIdle /\ SearchInit
    /\ LightboxInit /\ CounterIdle
    /\ LoaderInit /\ NavIdle /\ WritersInit
    /\ RateInit
    /\ BootIdle
    /\ FormInit
    /\ RevealIdle
    /\ lastEvent = NoEvent

NotScroll == <<carouselVars, filterVars, bodyOverflow, searchVars, lightboxVars,
               counterVars, loaderVars, navVars, writers,
    rateVars,
    bootVars,
    formVars,
    revealVars>>

NextScroll ==
    \/ \E s \in (0 .. MaxSmallScroll) \cup {50, 51, 500, 501, 600} :
          Scroll(s) /\ UNCHANGED NotScroll
    \/ \E t \in Throttled : ThrottleTimer(t) /\ UNCHANGED NotScroll

SpecScroll == InitScroll /\ [][NextScroll]_vars

\* the controllers that write the body's overflow style or the nav links
InitPage ==
    /\ OverflowInit /\ LoaderInit /\ NavTypical /\ SearchInit /\ LightboxInit
    /\ CarouselIdle /\ FilterIdle /\ CounterIdle /\ ScrollIdle
    /\ WritersInit
    /\ RateInit
    /\ BootIdle
    /\ FormInit
    /\ RevealIdle
    /\ lastEvent = NoEvent

NotPage == <<carouselVars, filterVars, counterVars, scrollVars,
    rateVars,
    bootVars,
    formVars,
    revealVars>>

NextPage ==
    \/ LoadEvent /\ UNCHANGED <<NotPage, navVars, searchVars, lightboxVars>>
    \/ LoaderHide /\ UNCHANGED <<NotPage, navVars, searchVars, lightboxVars>>
    \/ LoaderTimePasses /\ UNCHANGED <<NotPage, navVars, searchVars, lightboxVars>>
    \/ Resize /\ UNCHANGED <<NotPage, loaderVars, searchVars, lightboxVars>>
    \/ HamburgerClick /\ UNCHANGED <<NotPage, loaderVars, searchVars, lightboxVars>>
    \/ \E l \in 1 .. MaxLinks :
          NavLinkClick(l) /\ UNCHANGED <<NotPage, loaderVars, searchVars, lightboxVars>>
    \/ \E b \in Batches :
          SectionsIntersect(b) /\ UNCHANGED <<NotPage, loaderVars, searchVars, lightboxVars>>
    \/ SearchBtnClick /\ UNCHANGED <<NotPage, loaderVars, navVars, lightboxVars>>
    \/ SearchCloseClick /\ UNCHANGED <<NotPage, loaderVars, navVars, lightboxVars>>
    \/ \E t \in ClickTargets :
          SearchModalClick(t) /\ UNCHANGED <<NotPage, loaderVars, navVars, lightboxVars>>
    \/ FocusTimer /\ UNCHANGED <<NotPage, loaderVars, navVars, lightboxVars>>
    \/ \E k \in Keys : KeyDown(k) /\ UNCHANGED <<NotPage, loaderVars, navVars>>

SpecPage == InitPage /\ [][NextPage]_vars

InitRateLimit ==
    /\ RateInit /\ CarouselIdle /\ FilterIdle /\ OverflowIdle /\ SearchInit
    /\ LightboxInit /\ CounterIdle /\ ScrollIdle
    /\ LoaderInit /\ NavIdle /\ WritersInit
    /\ BootIdle
    /\ FormInit
    /\ RevealIdle
    /\ lastEvent = NoEvent

NotRateLimit == <<carouselVars, filterVars, bodyOverflow, searchVars, lightboxVars,
                  counterVars, scrollVars, loaderVars, navVars, writers,
    bootVars,
    formVars,
    revealVars>>

debounceVars == <<dbTimers, dbTimeout, dbCalls, dbRuns, dbLastArgs, dbRanArgs, dbQuiet,
                  dbBurstRuns>>
throttleVars == <<thFlag, thTimers, thCalls, thRuns, thSince>>

NextRateLimit ==
    \/ \E a \in Args : DebouncedCall(a) /\ UNCHANGED <<NotRateLimit, throttleVars>>
    \/ \E id \in 1 .. MaxCalls : Later(id) /\ UNCHANGED <<NotRateLimit, throttleVars>>
    \/ \E a \in Args : ThrottledCall(a) /\ UNCHANGED <<NotRateLimit, debounceVars>>
    \/ \E id \in 1 .. MaxCalls : ThrottleRelease(id) /\ UNCHANGED <<NotRateLimit, debounceVars>>
    \/ RateTimePasses /\ UNCHANGED NotRateLimit

SpecRateLimit == InitRateLimit /\ [][NextRateLimit]_vars

InitBoot ==
    /\ BootInit /\ RateInit /\ CarouselIdle /\ FilterIdle /\ OverflowIdle /\ SearchInit
    /\ LightboxInit /\ CounterIdle /\ ScrollIdle
    /\ LoaderInit /\ NavIdle /\ WritersInit
    /\ FormInit
    /\ RevealIdle
    /\ lastEvent = NoEvent

NotBoot == <<carouselVars, filterVars, bodyOverflow, searchVars, lightboxVars,
             counterVars, scrollVars, loaderVars, navVars, rateVars, writers,
    formVars,
    revealVars>>

NextBoot ==
    \/ RunScript /\ UNCHANGED NotBoot
    \/ DOMContentLoaded /\ UNCHANGED NotBoot
    \/ ReadyComplete /\ UNCHANGED NotBoot

SpecBoot == InitBoot /\ [][NextBoot]_vars

InitForms ==
    /\ FormInit /\ BootIdle /\ RateInit /\ CarouselIdle /\ FilterIdle /\ OverflowIdle
    /\ SearchInit /\ LightboxInit /\ CounterIdle /\ ScrollIdle
    /\ LoaderInit /\ NavIdle /\ WritersInit
    /\ RevealIdle
    /\ lastEvent = NoEvent

NotForms == <<carouselVars, filterVars, bodyOverflow, searchVars, lightboxVars,
              counterVars, scrollVars, loaderVars, navVars, rateVars, bootVars, writers,
    revealVars>>

\* the timers of the form handler and the passing of time
FormTimers ==
    \/ \E s \in 1 .. MaxSubmits : SubmitResumes(s) /\ UNCHANGED NotForms
    \/ \E n \in 1 .. MaxSubmits : NotificationTimeout(n) /\ UNCHANGED NotForms
    \/ FormTimePasses /\ UNCHANGED NotForms

NextForms ==
    \/ \E f \in Forms : FormInput(f) /\ UNCHANGED NotForms
    \/ \E f \in Forms : Submit(f) /\ UNCHANGED NotForms
    \/ FormTimers

SpecForms == InitForms /\ [][NextForms]_vars

\* time passes and the browser runs the timer callbacks that are due
SpecFormsLive == SpecForms /\ WF_vars(FormTimers)

\* the page after the bootstrap on a platform with or without
\* IntersectionObserver: without it ScrollAnimations falls back and
\* CounterAnimation's constructor throws before it observes anything.  The
\* counter's target is not positive, so its animation ends with the first
\* update and no frame callback is ever pending.
InitReveal ==
    /\ hasIO \in BOOLEAN
    /\ readyState = "complete" /\ missingMarkup = {} /\ scriptRan = TRUE
    /\ dclListeners = 0 /\ initRuns = 1
    /\ constructed = ConstructFrom(1)
    /\ logged = (Len(constructed) = Len(ControllerOrder))
    /\ RevealInitWith(hasIO)
    /\ dataCount \in {<<"0">>, <<"-", "1">>}
    /\ counterText = <<"0">> /\ frames = 0 /\ rafPending = FALSE
    /\ counterObserved = hasIO
    /\ counterStarted = FALSE /\ counterStarts = 0
    /\ FormInit /\ RateInit /\ CarouselIdle /\ FilterIdle /\ OverflowIdle
    /\ SearchInit /\ LightboxInit /\ ScrollIdle
    /\ LoaderInit /\ NavIdle /\ WritersInit
    /\ lastEvent = NoEvent

NotReveal == <<carouselVars, filterVars, bodyOverflow, searchVars, lightboxVars,
               scrollVars, loaderVars, navVars, rateVars, bootVars, formVars, writers>>

NextReveal ==
    \/ \E b \in RevealBatches(1 .. MaxReveal) :
          RevealIntersect(b) /\ UNCHANGED <<NotReveal, counterVars>>
    \/ \E id \in 1 .. (MaxReveal + 1) : RevealTimer(id) /\ UNCHANGED <<NotReveal, counterVars>>
    \/ RevealTimePasses /\ UNCHANGED <<NotReveal, counterVars>>
    \/ \E b \in BOOLEAN : CounterIntersect(b) /\ UNCHANGED <<NotReveal, revealVars>>

SpecReveal == InitReveal /\ [][NextReveal]_vars

\* the loading screen and the other writers of the body's overflow style
InitLoader ==
    /\ \E before \in BOOLEAN : LoaderInitAt(before)
    /\ OverflowInit /\ NavIdle /\ SearchInit /\ LightboxInit
    /\ RevealIdle /\ FormInit /\ BootIdle /\ RateInit
    /\ CarouselIdle /\ FilterIdle /\ CounterIdle /\ ScrollIdle
    /\ WritersInit
    /\ lastEvent = NoEvent

NotLoader == <<carouselVars, filterVars, lightboxVars, counterVars, scrollVars, rateVars,
               bootVars, formVars, revealVars>>

NextLoader ==
    \/ LoadEvent /\ UNCHANGED <<NotLoader, navVars, searchVars>>
    \/ LoaderHide /\ UNCHANGED <<NotLoader, navVars, searchVars>>
    \/ LoaderTimePasses /\ UNCHANGED <<NotLoader, navVars, searchVars>>
    \/ HamburgerClick /\ UNCHANGED <<NotLoader, loaderVars, searchVars>>
    \/ SearchBtnClick /\ UNCHANGED <<NotLoader, loaderVars, navVars>>
    \/ SearchCloseClick /\ UNCHANGED <<NotLoader, loaderVars, navVars>>
    \/ FocusTimer /\ UNCHANGED <<NotLoader, loaderVars, navVars>>

SpecLoader == InitLoader /\ [][NextLoader]_vars

\* the carousel over any number of cards, none included
InitSlider ==
    /\ \E n \in 0 .. MaxCards : CarouselInitWith(n)
    /\ RevealIdle /\ FormInit /\ BootIdle /\ RateInit
    /\ FilterIdle /\ OverflowIdle /\ SearchInit /\ LightboxInit
    /\ CounterIdle /\ ScrollIdle
    /\ LoaderInit /\ NavIdle /\ WritersInit
    /\ lastEvent = NoEvent

SpecSlider == InitSlider /\ [][NextCarousel]_vars

\* the nav links over any markup without a dropdown: clicks and section batches
InitNav ==
    /\ NavInit /\ dropLink = 0
    /\ OverflowIdle /\ LoaderInit /\ SearchInit /\ LightboxInit
    /\ RevealIdle /\ FormInit /\ BootIdle /\ RateInit
    /\ CarouselIdle /\ FilterIdle /\ CounterIdle /\ ScrollIdle
    /\ WritersInit
    /\ lastEvent = NoEvent

NotNav == <<carouselVars, filterVars, searchVars, lightboxVars, counterVars, scrollVars,
            loaderVars, rateVars, bootVars, formVars, revealVars>>

NextNav ==
    \/ \E l \in 1 .. MaxLinks : NavLinkClick(l) /\ UNCHANGED NotNav
    \/ \E b \in Batches : SectionsIntersect(b) /\ UNCHANGED NotNav

SpecNav == InitNav /\ [][NextNav]_vars

\* the bootstrap with ScrollAnimations' constructor and its callbacks, on a
\* platform with or without IntersectionObserver; the only markup an earlier
\* constructor may miss is the dropdown's link
InitFallback ==
    /\ BootInit /\ missingMarkup \subseteq {"dropdown .nav-link"}
    /\ RevealUnbuilt
    /\ FormInit /\ RateInit /\ CarouselIdle /\ FilterIdle /\ OverflowIdle
    /\ SearchInit /\ LightboxInit /\ CounterIdle /\ ScrollIdle
    /\ LoaderInit /\ NavIdle /\ WritersInit
    /\ lastEvent = NoEvent

NotFallback == <<carouselVars, filterVars, bodyOverflow, searchVars, lightboxVars,
                 counterVars, scrollVars, loaderVars, navVars, rateVars, formVars,
                 writers>>

NextFallback ==
    \/ RunScript /\ RevealAtBoot /\ UNCHANGED NotFallback
    \/ DOMContentLoaded /\ RevealAtBoot /\ UNCHANGED NotFallback
    \/ ReadyComplete /\ UNCHANGED <<NotFallback, revealVars>>
    \/ \E b \in RevealBatches(1 .. MaxReveal) :
          RevealIntersect(b) /\ UNCHANGED <<NotFallback, bootVars>>
    \/ \E id \in 1 .. (MaxReveal + 1) : RevealTimer(id) /\ UNCHANGED <<NotFallback, bootVars>>
    \/ RevealTimePasses /\ UNCHANGED <<NotFallback, bootVars>>

SpecFallback == InitFallback /\ [][NextFallback]_vars

-----------------------------------------------------------------------------
(* Claims: testimonial carousel *)

\* C1: with no dot click in between, every timer advance moves the index from
\* i to (i+1) mod N: the index is the start index plus the number of advances,
\* mod N; from index 0 it is 0 again after exactly N advances and differs from
\* 0 after k advances, 0 < k < N.
C1_CarouselCycle ==
    advCount < MaxAdvances =>
        /\ currentSlide = (startIdx + advCount) % numCards
        /\ (startIdx = 0 /\ advCount = numCards) => currentSlide = 0
        /\ (startIdx = 0 /\ 0 < advCount /\ advCount < numCards) => currentSlide # 0

C1_Witness ==
    /\ numCards = MaxCards
    /\ startIdx = 0
    /\ advCount = numCards
    /\ lastEvent[1] = "timer"
    /\ currentSlide = 0

\* C2: when the markup marks only card 0 active, in every reachable state the
\* current index is within 0..N-1 and exactly the card and the dot at the
\* current index carry the active mark.
C2_OneActive ==
    markup = {0} =>
        /\ currentSlide \in Cards
        /\ cardsActive = {currentSlide}
        /\ dotsActive = {currentSlide}

C2_Witness ==
    /\ markup = {0}
    /\ numCards = MaxCards
    /\ currentSlide = numCards - 1
    /\ cardsActive = {currentSlide}
    /\ ~autoPlay
    /\ lastEvent[1] = "timer"

\* C3 (as claimed): while the pointer is over the slider (autoPlay is false
\* from mouseenter to the next mouseleave) no timer callback changes the
\* current slide, and mouseleave restarts the timer a full interval away.
C3_PausedWhileHovered ==
    [][ /\ (~autoPlay /\ lastEvent'[1] = "timer") => currentSlide' = currentSlide
        /\ lastEvent'[1] = "mouseleave" =>
               /\ DOMAIN liveIntervals' = {interval'}
               /\ liveIntervals'[interval'] = 0 ]_vars

-----------------------------------------------------------------------------
(* Claims: destination filter *)

\* C4: after any non-empty sequence of clicks on filter buttons exactly one
\* button carries the active mark, the one clicked last.
C4_OneActiveButton ==
    lastClicked # 0 => btnActive = {lastClicked}

C4_Witness ==
    /\ Cardinality(Buttons) = MaxButtons
    /\ lastClicked = MaxButtons
    /\ btnActive = {MaxButtons}
    /\ everHidden # {}

\* C5: after a click on the button with filter value f, a card is shown (not
\* flagged hidden) iff f = 'all' or its category = f, whatever was clicked
\* before.
C5_Visibility ==
    lastClicked # 0 =>
        \A c \in DestCards :
            (c \notin cardHidden) <=>
                (btnFilter[lastClicked] = "all" \/ cardCategory[c] = btnFilter[lastClicked])

\* a card an earlier click hid is shown again by a later, matching filter
C5_Witness ==
    /\ lastClicked # 0
    /\ btnFilter[lastClicked] # "all"
    /\ \E c \in DestCards :
          /\ c \in everHidden
          /\ c \notin cardHidden
          /\ cardCategory[c] = btnFilter[lastClicked]
    /\ cardHidden # {}

-----------------------------------------------------------------------------
(* Claims: search overlay and lightbox *)

\* C6: the overlay is closed initially and open after a trigger-button click;
\* from the open state an Escape key press, a close-button click and a click
\* on the backdrop itself each close it, a click inside its content leaves it
\* open; an Escape key press while it is closed changes neither the overlay
\* state nor the page-scroll lock.
C6_SearchOverlay ==
    /\ ~searchActive
    /\ [][ /\ lastEvent' = <<"search.open", 0>> => searchActive'
           /\ ( /\ searchActive
                /\ lastEvent' \in {<<"keydown", "Escape">>, <<"search.close", 0>>,
                                  <<"search.click", "backdrop">>} ) => ~searchActive'
           /\ (searchActive /\ lastEvent' = <<"search.click", "content">>) => searchActive'
           /\ (~searchActive /\ lastEvent' = <<"keydown", "Escape">>) =>
                  (~searchActive' /\ bodyOverflow' = bodyOverflow) ]_vars

\* an Escape key press has closed the overlay a trigger click opened
C6_Witness ==
    /\ lastEvent = <<"keydown", "Escape">>
    /\ ~searchActive
    /\ focusPending > 0
    /\ bodyOverflow = ""

\* C7 (as claimed): after a dismissal by close button, backdrop click or Escape
\* the document holds no lightbox node and no lightbox style node, whatever
\* opens came before.
C7_NoLightboxLeft ==
    ( \/ lastEvent[1] \in {"lightbox.close", "lightbox.backdrop"}
      \/ lastEvent = <<"keydown", "Escape">> )
    => (lightboxes = {} /\ lbStyles = {})

\* C7 (amended): a dismissal by close button or backdrop click removes that
\* lightbox's node and its style node and leaves the other open lightboxes and
\* their style nodes in place; an Escape key press leaves no lightbox node and
\* no lightbox style node; the style nodes in the document are always those of
\* the lightboxes in it.
C7_Teardown ==
    /\ [][ /\ \A lb \in 1 .. MaxOpens :
                lastEvent' \in {<<"lightbox.close", lb>>, <<"lightbox.backdrop", lb>>} =>
                    /\ lb \in lightboxes
                    /\ lightboxes' = lightboxes \ {lb}
                    /\ lbStyles' = lbStyles \ {lb}
           /\ lastEvent' = <<"keydown", "Escape">> =>
                    (lightboxes' = {} /\ lbStyles' = {}) ]_vars
    /\ [](lbStyles = lightboxes)

\* a close-button click dismissed one of two open lightboxes
C7_Witness ==
    /\ lastEvent[1] = "lightbox.close"
    /\ lastEvent[2] \notin lightboxes
    /\ lightboxes # {}
    /\ lbStyles = lightboxes

-----------------------------------------------------------------------------
(* Claims: counter animation and scroll progress *)

\* C8 (as claimed): once the animation of a counter whose data-count parses to
\* the integer N has written its final text (no frame is pending any more),
\* the text is "10" when N = 10 and N followed by "K+" for any other N.
C8_FinalText ==
    (counterStarted /\ ~rafPending /\ ~ParseInt(dataCount).nan) =>
        counterText = IF ParseInt(dataCount).val = 10
                      THEN <<"1", "0">>
                      ELSE NumToStr(ParseInt(dataCount).val) \o <<"K", "+">>

\* C9: a scroll event at position s that the progress listener processes (its
\* throttle flag is clear) writes exactly 100*s/H percent, a value between 0
\* and 100, when H = scrollHeight - innerHeight > 0, and writes no finite
\* percentage when H = 0.
C9_ScrollPercent ==
    [][ (lastEvent'[1] = "scroll" /\ ~inThrottle["progress"]) =>
            LET s == lastEvent'[2]
                h == scrollHeight - innerHeight
                w == progressWidth'
            IN /\ h > 0 => /\ w.kind = "fin"
                           /\ w.num * h = 100 * s * w.den
                           /\ 0 <= w.num /\ w.num <= 100 * w.den
               /\ h = 0 => w.kind # "fin" ]_vars

\* the handler has written a percentage that is not a whole number
C9_Witness ==
    /\ lastEvent[1] = "scroll"
    /\ scrollY = lastEvent[2]
    /\ progressWidth.kind = "fin"
    /\ progressWidth.den = 3
    /\ progressWidth.num * (scrollHeight - innerHeight) = 100 * scrollY * progressWidth.den

-----------------------------------------------------------------------------
(* Claims: ownership of page state *)

\* C10 (as claimed): every item of mutable page state, in particular the
\* body's overflow style and the nav links' active mark, is written by at
\* most one controller in any reachable execution.
C10_SingleWriter ==
    \A r \in Resources : Cardinality(writers[r]) <= 1

\* C11 (as claimed): in every state reachable by hamburger clicks, search
\* open/close events, nav-link clicks and the loader's delayed hide, page
\* scrolling is locked (the body's overflow is 'hidden') whenever the mobile
\* menu or the search overlay is open.
C11_ScrollLocked ==
    (menuActive \/ searchActive) => bodyOverflow = "hidden"

-----------------------------------------------------------------------------
(* Claims: rate-limiting wrappers *)

\* C12: at most one scheduled call of the debounced action is pending at any
\* time; the action runs only from the timer, never inside a call, only when
\* the delay has elapsed since the most recent call, with that call's
\* arguments, and at most once per burst; once more than the delay has passed
\* since the most recent call it has run exactly once for that burst.
C12_Debounce ==
    /\ [](Cardinality(DOMAIN dbTimers) <= 1)
    /\ []((dbCalls > 0 /\ dbQuiet > WaitQuanta) => dbBurstRuns = 1)
    /\ [][ /\ lastEvent'[1] = "debounce.call" => dbRuns' = dbRuns
           /\ dbRuns' # dbRuns => lastEvent'[1] = "debounce.run"
           /\ lastEvent'[1] = "debounce.run" =>
                  /\ dbRuns' = dbRuns + 1
                  /\ dbQuiet = WaitQuanta
                  /\ dbBurstRuns = 0
                  /\ lastEvent'[2] = dbLastArgs
                  /\ dbRanArgs' = dbLastArgs ]_vars

\* a burst of three calls has ended in one run, with the last call's arguments
C12_Witness ==
    /\ lastEvent[1] = "debounce.run"
    /\ dbCalls = 3
    /\ dbRuns = 1
    /\ dbRanArgs = dbLastArgs
    /\ dbTimers = << >>

\* C13: the first call of the throttled action invokes it immediately; a call
\* made while fewer than the interval has elapsed since the last invocation
\* is ignored, then and later (the action runs only inside a call); a call
\* made after the interval has elapsed (at the very instant it ends: once the
\* wrapper's timer has run) invokes it immediately; any two invocations are
\* at least the interval apart.
C13_Throttle ==
    [][ /\ thRuns' # thRuns => (lastEvent'[1] = "throttle.call" /\ thRuns' = thRuns + 1)
        /\ lastEvent'[1] = "throttle.call" =>
               /\ thRuns = 0 => thRuns' = 1
               /\ (thRuns > 0 /\ thSince < LimitQuanta) =>
                      (thRuns' = thRuns /\ thTimers' = thTimers)
               /\ (thRuns > 0 /\ thSince > LimitQuanta) => thRuns' = thRuns + 1
               /\ (thRuns > 0 /\ thSince = LimitQuanta /\ DOMAIN thTimers = {}) =>
                      thRuns' = thRuns + 1
               /\ thRuns' # thRuns => (thRuns = 0 \/ thSince >= LimitQuanta) ]_vars

\* two calls were invoked and two, made within the interval, were ignored
C13_Witness ==
    /\ lastEvent[1] = "throttle.call"
    /\ thCalls = 4
    /\ thRuns = 2
    /\ thSince = 0
    /\ thFlag

-----------------------------------------------------------------------------
(* Claims: bootstrap *)

\* C14 (as claimed): initApp runs at most once, and exactly once by the time
\* the script has run and the document is past loading; it constructs the
\* controllers in the fixed order, each once, and logs only after all 14; a
\* constructor that fails does not keep the controllers after it from being
\* constructed.
C14_Bootstrap ==
    /\ initRuns <= 1
    /\ (scriptRan /\ readyState # "loading") => initRuns = 1
    /\ logged => constructed = ControllerOrder
    /\ initRuns = 1 =>
           constructed = SelectSeq(ControllerOrder, LAMBDA c : ~Throws(c))

-----------------------------------------------------------------------------
(* Claims: form feedback *)

-----------------------------------------------------------------------------
(* Claims: reveal and counter animations *)

\* what C16 says of every step: an intersection that schedules a mark
\* unobserves the element at once, marks nothing yet and sets the timer to the
\* element's declared delay; an element is marked by its timer when that is
\* due; a marked element stays marked
RevealSteps ==
    /\ revealMarked \subseteq revealMarked'
    /\ \A e \in RevealElements :
           /\ revealHits'[e] > revealHits[e] =>
                  /\ e \in revealObserved /\ e \notin revealObserved'
                  /\ revealMarked' = revealMarked
                  /\ \E t \in DOMAIN revealTimers' \ DOMAIN revealTimers :
                         revealTimers'[t] = [el |-> e, left |-> revealDelay[e]]
           /\ (e \in revealMarked' \ revealMarked) =>
                  /\ lastEvent' = <<"reveal.mark", e>>
                  /\ \E t \in DOMAIN revealTimers \ DOMAIN revealTimers' :
                         revealTimers[t] = [el |-> e, left |-> 0]

\* no element schedules a second mark and the counter's animation is started
\* at most once; an element that intersected is marked once its timer is gone
RevealOnce ==
    /\ \A e \in RevealElements :
           /\ revealHits[e] <= 1
           /\ (revealHits[e] > 0 /\ \A t \in DOMAIN revealTimers : revealTimers[t].el # e)
                  => e \in revealMarked
    /\ counterStarts <= 1
    /\ counterStarted <=> counterStarts > 0

-----------------------------------------------------------------------------
(* Claims: loading screen *)

\* C17: the loading overlay is not hidden before the load listener has run;
\* when the load event fires after construction, the overlay is hidden and
\* the body's overflow set to 'auto' exactly HideDelay ms later, not before,
\* and the overlay stays hidden from then on; when the load event had fired
\* before construction, the overlay is never hidden.
C17_LoadingScreen ==
    /\ [] /\ loaderHidden => loadFired
          /\ loadedBefore => (~loadFired /\ ~loaderHidden)
          /\ (loadFired /\ ~hidePending) => loaderHidden
          /\ (loadFired /\ hidePending) => (~loaderHidden /\ hideElapsed <= HideQuanta)
    /\ [][ /\ loaderHidden => loaderHidden'
           /\ lastEvent' = <<"load", 0>> => (hidePending' /\ hideElapsed' = 0)
           /\ (loaderHidden' /\ ~loaderHidden) =>
                  /\ lastEvent' = <<"loader.hide", 0>>
                  /\ hideElapsed = HideQuanta
                  /\ bodyOverflow' = "auto" ]_vars

\* the overlay was hidden while the search overlay had locked page scrolling
C17_Witness ==
    /\ lastEvent = <<"loader.hide", 0>>
    /\ loaderHidden
    /\ hideElapsed = HideQuanta
    /\ bodyOverflow = "auto"
    /\ searchActive

-----------------------------------------------------------------------------
(* Claims: carousel without cards, dot clicks *)

\* C18 (as claimed): with no testimonial card every timer advance is a no-op:
\* the current index stays 0, nothing is marked active and no error is raised.
C18_EmptyInert ==
    numCards = 0 =>
        /\ currentSlide = 0
        /\ cardsActive = {}
        /\ dotsActive = {}
        /\ ~sliderThrew

\* C19: a click on dot i, for every i in 0..N-1, sets the current index to i
\* whatever it was before and leaves the autoplay flag, the interval id and
\* the running timers as they are; the first timer advance after it moves to
\* (i+1) mod N.
C19_DotClick ==
    [][ /\ lastEvent'[1] = "dot" =>
               /\ lastEvent'[2] \in Cards
               /\ currentSlide' = lastEvent'[2]
               /\ autoPlay' = autoPlay
               /\ interval' = interval
               /\ liveIntervals' = liveIntervals
        /\ (lastEvent'[1] = "timer" /\ advCount = 0) =>
               currentSlide' = (startIdx + 1) % numCards ]_vars

\* the last dot was clicked from another slide and the next advance wrapped
C19_Witness ==
    /\ lastEvent[1] = "timer"
    /\ numCards = MaxCards
    /\ startIdx = numCards - 1
    /\ advCount = 1
    /\ currentSlide = 0

-----------------------------------------------------------------------------
(* Claims: in-page nav links *)

\* C20 (as claimed): a click on an in-page nav link (one with data-scroll) has
\* its default prevented; when its target section exists, right after the
\* click that link is the only nav link marked active, the hamburger and the
\* menu are not active and page scrolling is not locked, whatever the
\* viewport width and whatever the section observer marked before.
C20_NavLinkClick ==
    [][ \A l \in Links :
          (lastEvent' = <<"navlink", l>> /\ linkScroll[l]) =>
              /\ defaultPrevented'
              /\ linkHref[l] # 0 =>
                     /\ linkActive' = {l}
                     /\ ~hamburgerActive'
                     /\ ~menuActive'
                     /\ bodyOverflow' # "hidden" ]_vars

-----------------------------------------------------------------------------
(* Claims: active-section link *)

\* the nav links whose href is '#' + the id of section s
LinksTo(s) == {l \in Links : linkHref[l] = s}

\* C21: after the section observer has processed a batch of entries, the nav
\* links marked active are exactly those whose href names the section of the
\* last intersecting entry of the batch, and every other nav link is cleared
\* (so none is active when no link names that section); a batch without an
\* intersecting entry changes no mark.
C21_ActiveSection ==
    [][ lastEvent'[1] = "sections" =>
          IF lastEvent'[2] = 0 THEN linkActive' = linkActive
          ELSE linkActive' = LinksTo(lastEvent'[2]) ]_vars

\* after a click had marked a link, a batch has ended on a section that no
\* link names and has left no link active
C21_Witness ==
    /\ lastEvent[1] = "sections"
    /\ lastEvent[2] # 0
    /\ LinksTo(lastEvent[2]) = {}
    /\ linkActive = {}
    /\ "Navigation" \in writers["navlink.active"]

-----------------------------------------------------------------------------
(* Claims: reveal fallback *)

\* C22: on a platform without IntersectionObserver the reveal controller's
\* constructor returns whenever initApp reaches it, and from then on every
\* flagged element is marked animated, whatever its declared delay: no timer
\* is ever set and no intersection is waited for; before the constructor has
\* run no element is marked.
C22_RevealFallback ==
    ~hasIO =>
        /\ "ScrollProgress" \in Built(constructed) => "ScrollAnimations" \in Built(constructed)
        /\ "ScrollAnimations" \in Built(constructed) =>
               /\ revealMarked = RevealElements
               /\ revealTimers = << >>
               /\ \A e \in RevealElements : revealHits[e] = 0
        /\ "ScrollAnimations" \notin Built(constructed) => revealMarked = {}

\* without IntersectionObserver the constructor has just run, at
\* DOMContentLoaded, and has marked an element that declares the longest delay
C22_Witness ==
    /\ ~hasIO
    /\ lastEvent[1] = "DOMContentLoaded"
    /\ "ScrollAnimations" \in Built(constructed)
    /\ \E e \in RevealElements : revealDelay[e] = MaxDelay /\ e \in revealMarked

-----------------------------------------------------------------------------
(* Claims: one autoplay timer *)

\* C23: whatever pointer-enter, pointer-leave and dot-click events follow the
\* construction, at most one autoplay interval is running, the one
\* this.interval names, and a timer advance never comes less than a full
\* interval (5000 ms) after the previous one.
C23_OneInterval ==
    /\ [](Cardinality(DOMAIN liveIntervals) <= 1 /\ DOMAIN liveIntervals \subseteq {interval})
    /\ [][lastEvent'[1] = "timer" => sinceAdvance = QuantaPerInterval]_vars

\* part of an interval after a timer advance, a pointer-leave has just
\* restarted the timer: the one interval running is a full interval from due
C23_Witness ==
    /\ lastEvent[1] = "mouseleave"
    /\ advCount > 0
    /\ 0 < sinceAdvance /\ sinceAdvance < QuantaPerInterval
    /\ DOMAIN liveIntervals = {interval}
    /\ liveIntervals[interval] = 0

-----------------------------------------------------------------------------
(* Claims: scroll-driven state after scrolling stops *)

\* C24 (as claimed): once scroll events have been delivered and every pending
\* throttle timer has run, the nav bar carries the scrolled mark iff the scroll
\* position exceeds 50 px, the back-to-top button is visible iff it exceeds
\* 500 px, and the progress bar shows the percentage of that position.
C24_Converges ==
    (lastEvent # NoEvent /\ \A t \in Throttled : ~inThrottle[t]) =>
        /\ navScrolled = (scrollY > NavThreshold)
        /\ btnVisible = (scrollY > TopThreshold)
        /\ progressWidth = ScrollPercent(scrollY, scrollHeight, innerHeight)

-----------------------------------------------------------------------------
(* Claims: the lightbox's document key listeners *)

\* C25 (as claimed): in every reachable state the document keydown listeners
\* the lightbox controller has registered are those of the lightboxes that
\* are open: a dismissed lightbox leaves no listener behind, and the number of
\* listeners does not grow with the number of opens.
C25_ListenersReleased ==
    /\ keyListeners = lightboxes
    /\ Cardinality(keyListeners) = Cardinality(lightboxes)

=============================================================================
